---------------------------- MODULE Spec2Model ----------------------------
(***************************************************************************)
(* Model of scripts/enrich-knowledge-content.py (KnowledgeContentEnricher) *)
(* and scripts/explode_json.py.                                            *)
(*                                                                         *)
(* JSON values are encoded uniformly as records [kind, items]:             *)
(*   a key that is missing        [kind |-> "absent", items |-> <<>>]      *)
(*   a string                     [kind |-> "str",    items |-> <<s>>]     *)
(*   a list of elements           [kind |-> "list",   items |-> <<..>>]    *)
(* A JSON object is a function from Keys to such values; a file is         *)
(* [ok, obj] where ok = FALSE stands for text json.load cannot parse.      *)
(***************************************************************************)
EXTENDS Integers, Sequences, FiniteSets, TLC

\* ------------------------------------------------------------------ bounds
\* number of record files in the input folder
NumFiles == 2
\* longest list the external tool returns for a field
MaxLen == 1
\* number of times the enricher process is started
MaxRuns == 2
\* longest input array of the splitter
MaxArr == 2
\* longest value of the splitter's key field, in characters
MaxNameLen == 2

\* ------------------------------------------------------------ JSON values
Absent == [kind |-> "absent", items |-> <<>>]
Str(s) == [kind |-> "str", items |-> <<s>>]
List(q) == [kind |-> "list", items |-> q]

\* sequences over S of length at most n
SeqUpTo(S, n) == UNION {[1..k -> S] : k \in 0..n}

\* the three classification fields, in the order the code walks them
expected_fields == <<"target_persona", "startup_phase", "problem_category">>
TargetFields == {expected_fields[n] : n \in 1..Len(expected_fields)}

\* the fixed enumeration of each classification field
valid_values ==
  [target_persona |-> {"founder", "executive", "investor", "product_manager"},
   startup_phase |-> {"ideation", "seed", "growth", "scale-up", "crisis"},
   problem_category |-> {"pivot", "hiring", "fundraising", "co-founder_conflict",
                         "product-market_fit", "go-to-market", "team_and_culture",
                         "operations", "competitive_strategy", "pricing",
                         "risk_management"}]

\* the record fields the prompt is built from (the model keeps one of them)
PromptFields == {"definition"}
\* a free-form record field the prompt does not read
OtherFields == {"source"}
Keys == TargetFields \cup PromptFields \cup OtherFields

\* a string holding a lone surrogate (JSON text "\ud800"): json.load accepts
\* it, the utf-8 encoder of open(..., encoding='utf-8') and of the argument
\* vector of subprocess.run refuses it
Surrogate == "\\ud800"
\* a list element that is itself a list or an object: `value not in valid_set`
\* raises TypeError (unhashable type) on it
Unhashable == "[nested]"

EmptyObj == [k \in Keys |-> Absent]
Corrupt == [ok |-> FALSE, obj |-> EmptyObj]
File(o) == [ok |-> TRUE, obj |-> o]

HasSurrogate(obj, keys) ==
  \E k \in keys : obj[k].kind = "str" /\ obj[k].items = <<Surrogate>>

\* ------------------------------------------- _validate_claude_response
RECURSIVE CheckValues(_, _, _)
\* the inner loop `for value in field_value`: "true" when every element is in
\* valid_set, "false" at the first one that is not, "raise" at an element
\* that cannot be hashed
CheckValues(items, valid_set, j) ==
  IF j > Len(items) THEN "true"
  ELSE IF items[j] = Unhashable THEN "raise"
  ELSE IF items[j] \notin valid_set THEN "false"
  ELSE CheckValues(items, valid_set, j + 1)

RECURSIVE ValidateFromSkipsLast(_, _)
\* faulty variant: the loop over expected_fields stops one field early
ValidateFromSkipsLast(response, n) ==
  IF n >= Len(expected_fields) THEN "true"
  ELSE LET field == expected_fields[n]
           field_value == response[field]
       IN IF field_value.kind = "absent" THEN "false"
          ELSE IF field_value.kind # "list" THEN "false"
          ELSE LET c == CheckValues(field_value.items, valid_values[field], 1)
               IN IF c # "true" THEN c ELSE ValidateFromSkipsLast(response, n + 1)

RECURSIVE ValidateFromNoTypeCheck(_, _)
\* faulty variant: the isinstance(field_value, list) test is missing
ValidateFromNoTypeCheck(response, n) ==
  IF n > Len(expected_fields) THEN "true"
  ELSE LET field == expected_fields[n]
           field_value == response[field]
       IN IF field_value.kind = "absent" THEN "false"
          ELSE LET c == CheckValues(field_value.items, valid_values[field], 1)
               IN IF c # "true" THEN c ELSE ValidateFromNoTypeCheck(response, n + 1)

RECURSIVE ValidateFrom(_, _)
\* the outer loop `for field in expected_fields`, from the n-th field on
ValidateFrom(response, n) ==
  IF n > Len(expected_fields) THEN "true"
  ELSE LET field == expected_fields[n]
           field_value == response[field]
       IN IF field_value.kind = "absent" THEN "false"
          ELSE IF field_value.kind # "list" THEN "false"
          ELSE LET c == CheckValues(field_value.items, valid_values[field], 1)
               IN IF c # "true" THEN c ELSE ValidateFrom(response, n + 1)

\* "true" / "false": the value returned; "raise": an exception leaves it
ValidateClaudeResponse(response) == ValidateFrom(response, 1)

\* ------------------------------------------------------ _call_claude_code
\* What the external tool does on one invocation:
\*   kind "exit_nonzero"  CalledProcessError (check=True)
\*   kind "timeout"       TimeoutExpired
\*   kind "stdout"        exit 0 with standard output `out`, a sequence of
\*                        tokens "{", "}" and "t" (any other text); the text
\*                        of the JSON object `resp` is the two adjacent
\*                        tokens "{" "}"
NoResponse == [isNone |-> TRUE, resp |-> EmptyObj]
SomeResponse(r) == [isNone |-> FALSE, resp |-> r]

\* str.find: 0-based index of the first tok, -1 when there is none
Find(out, tok) ==
  IF \E p \in 1..Len(out) : out[p] = tok
  THEN (CHOOSE p \in 1..Len(out) :
          out[p] = tok /\ \A q \in 1..(p - 1) : out[q] # tok) - 1
  ELSE -1

\* str.rfind: 0-based index of the last tok, -1 when there is none
RFind(out, tok) ==
  IF \E p \in 1..Len(out) : out[p] = tok
  THEN (CHOOSE p \in 1..Len(out) :
          out[p] = tok /\ \A q \in (p + 1)..Len(out) : out[q] # tok) - 1
  ELSE -1

\* response_text[start_idx:end_idx] handed to json.loads, which succeeds
\* exactly on the text of one object
ParseStdout(out, resp) ==
  LET start_idx == Find(out, "{")
      end_idx == RFind(out, "}") + 1
  IN IF start_idx >= 0 /\ end_idx > start_idx
     THEN LET json_str == SubSeq(out, start_idx + 1, end_idx)
          IN IF json_str = <<"{", "}">> THEN SomeResponse(resp) ELSE NoResponse
     ELSE NoResponse

\* whether subprocess.run gets as far as starting the tool: a lone surrogate
\* in the prompt makes the encoding of the argument vector raise
ToolInvoked(obj) == ~HasSurrogate(obj, PromptFields)

CallClaudeCode(obj, outcome) ==
  IF ~ToolInvoked(obj) THEN NoResponse
  ELSE IF outcome.kind = "timeout" THEN NoResponse
  ELSE IF outcome.kind = "exit_nonzero" THEN NoResponse
  ELSE ParseStdout(outcome.out, outcome.resp)

\* ------------------------------------------------------------ _enrich_file
\* faulty variant: skips a record only when its fields also hold valid lists
HasRequiredFieldsValidated(obj) ==
  \A field \in TargetFields :
    /\ obj[field].kind = "list"
    /\ CheckValues(obj[field].items, valid_values[field], 1) = "true"

\* faulty variant: the membership test is inverted (`not in` for `in`)
HasRequiredFieldsInverted(obj) == \A field \in TargetFields : obj[field].kind = "absent"

\* all(field in content for field in [...]) : presence only
HasRequiredFields(obj) == \A field \in TargetFields : obj[field].kind # "absent"

\* dict.update: every key of the response replaces or adds that key
Update(obj, response) ==
  [k \in Keys |-> IF response[k].kind # "absent" THEN response[k] ELSE obj[k]]

\* open(file_path, 'w') followed by json.dump(..., ensure_ascii=False): the
\* file is truncated first; a lone surrogate anywhere in the object makes the
\* encoder raise part-way, leaving text that is not JSON
DumpRaises(obj) == HasSurrogate(obj, Keys)
WriteFile(obj) == IF DumpRaises(obj) THEN Corrupt ELSE File(obj)

\* One call of _enrich_file on a file holding `content`, the tool behaving as
\* `outcome`: [success, content (of the file afterwards), called (the tool
\* was started), wrote (the file was opened for writing)]
Result(s, c, called, wrote) ==
  [success |-> s, content |-> c, called |-> called, wrote |-> wrote]

EnrichFile(content, outcome) ==
  IF ~content.ok THEN Result(FALSE, content, FALSE, FALSE)
  ELSE IF HasRequiredFields(content.obj) THEN Result(TRUE, content, FALSE, FALSE)
  ELSE LET claude_response == CallClaudeCode(content.obj, outcome)
           called == ToolInvoked(content.obj)
       IN IF claude_response.isNone THEN Result(FALSE, content, called, FALSE)
          ELSE IF ValidateClaudeResponse(claude_response.resp) # "true"
          THEN Result(FALSE, content, called, FALSE)
          ELSE LET merged == Update(content.obj, claude_response.resp)
               IN Result(~DumpRaises(merged), WriteFile(merged), called, TRUE)


\* ------------------------------------------------------- the progress log
\* The log file: absent, unparseable, or the document _save_progress writes
\* (the last_updated timestamp is left out: nothing reads it back).
AbsentLog == [state |-> "absent", processed_files |-> {}, total_processed |-> 0]
CorruptLog == [state |-> "corrupt", processed_files |-> {}, total_processed |-> 0]

\* faulty variant: the count is taken before the new name is added
SaveProgressCountBefore(processed) ==
  [state |-> "valid", processed_files |-> processed,
   total_processed |-> Cardinality(processed) - 1]

SaveProgress(processed) ==
  [state |-> "valid", processed_files |-> processed,
   total_processed |-> Cardinality(processed)]

\* the set the constructor ends up with: the listed names, or set() when the
\* file is missing or json.load raises
LoadProgress(l) == IF l.state = "valid" THEN l.processed_files ELSE {}

\* ---------------------------------------------------------- the input folder
Files == 1..NumFiles

\* faulty variant: the processed set is not consulted
UnprocessedFilesAll(processed) == Files

\* _get_json_files: the names not yet in the processed set
UnprocessedFiles(processed) == {f \in Files : f \notin processed}

\* glob returns them in an order the file system chooses
Listings(S) ==
  {q \in [1..Cardinality(S) -> S] : \A a, b \in 1..Cardinality(S) : a # b => q[a] # q[b]}

\* faulty variant: the loop stops at the first failure
NextPcAbortOnFailure(ok, n, total) == IF ok /\ n < total THEN "loop" ELSE "done"

\* the loop of enrich_all_files goes on to the next file whatever the result
NextPc(ok, n, total) == IF n < total THEN "loop" ELSE "done"

VARIABLES
  disk,              \* content of each record file
  log,               \* content of the progress log file
  processed_files,   \* self.processed_files
  json_files,        \* the list enrich_all_files iterates
  i,                 \* the loop index (enumerate(json_files, 1))
  pc,                \* "idle", "loop", "record", "done" or "dead"
  success,           \* the value _enrich_file returned for json_files[i]
  successful_count,
  failed_count,
  runs,              \* how many times the process has been started
  attempts,          \* history: calls of _enrich_file per file, this run
  calls,             \* history: starts of the external tool per file, this run
  written,           \* history: files opened for writing, this run
  startLog,          \* history: the names the log listed when this run began
  enriched,          \* history: files _enrich_file has returned success for
  marked,            \* history: files added to the processed set by the loop
  rewritten,         \* history: files rewritten with a validated response
  one,               \* a single call of _enrich_file on its own
  sp                 \* the splitter

enricherVars ==
  <<disk, log, processed_files, json_files, i, pc, success, successful_count,
    failed_count, runs, attempts, calls, written, startLog, enriched, marked,
    rewritten>>
vars == <<enricherVars, one, sp>>


\* ------------------------------------------------------------------ inputs
\* The elements a response list is drawn from, per field: a member of the
\* field's enumeration, a member of another field's enumeration, and an
\* element that cannot be hashed.
SampleElems ==
  [target_persona |-> {"founder", "seed", Unhashable},
   startup_phase |-> {"seed", "pivot", Unhashable},
   problem_category |-> {"pivot", "founder", Unhashable}]

\* what a response may hold under a classification field
FieldOptions(field) ==
  {Absent, Str("founder")} \cup {List(q) : q \in SeqUpTo(SampleElems[field], MaxLen)}

\* the objects the tool may print: the three fields, each in every shape,
\* and possibly keys the enricher did not ask for
Responses ==
  {[k \in Keys |->
      CASE k = "target_persona" -> a
        [] k = "startup_phase" -> b
        [] k = "problem_category" -> c
        [] k = "definition" -> d
        [] OTHER -> Absent] :
     a \in FieldOptions("target_persona"), b \in FieldOptions("startup_phase"),
     c \in FieldOptions("problem_category"), d \in {Absent, Str("d1")}}

Outcome(k, o, r) == [kind |-> k, out |-> o, resp |-> r]

\* standard outputs that hold no parseable object
BadStdouts == {<<>>, <<"t">>, <<"}", "{">>, <<"{", "t", "}">>, <<"{", "}", "t", "{", "}">>}
\* standard outputs that hold exactly one object, with or without text round it
GoodStdouts == {<<"{", "}">>, <<"t", "{", "}", "t">>}

Outcomes ==
  {Outcome("exit_nonzero", <<>>, EmptyObj), Outcome("timeout", <<>>, EmptyObj)}
  \cup {Outcome("stdout", o, EmptyObj) : o \in BadStdouts}
  \cup {Outcome("stdout", o, r) : o \in GoodStdouts, r \in Responses}

\* record files as they may be found in the folder
Plain == [EmptyObj EXCEPT !["definition"] = Str("d0")]
Complete ==
  [Plain EXCEPT !["target_persona"] = List(<<"founder">>),
                !["startup_phase"] = List(<<"seed">>),
                !["problem_category"] = List(<<"pivot">>)]
CompleteUnchecked ==
  [Plain EXCEPT !["target_persona"] = Str("anyone"),
                !["startup_phase"] = List(<<"later">>),
                !["problem_category"] = List(<<>>)]
Partial == [Plain EXCEPT !["target_persona"] = Str("anyone"), !["source"] = Str("s0")]
SurrogateInSource == [Plain EXCEPT !["source"] = Str(Surrogate)]
SurrogateInPrompt == [Plain EXCEPT !["definition"] = Str(Surrogate)]

Shapes ==
  {Corrupt} \cup {File(o) : o \in {Plain, Complete, CompleteUnchecked, Partial,
                                   SurrogateInSource, SurrogateInPrompt}}

\* the whole-run model draws from fewer files and fewer tool outcomes: the
\* second and third field are always answered well, the first in every shape,
\* an unrequested key only beside a well-formed first field
RunShapes == {File(o) : o \in {Plain, CompleteUnchecked, SurrogateInSource}}
RunResponses ==
  {r \in Responses : /\ r["startup_phase"] = List(<<"seed">>)
                     /\ r["problem_category"] = List(<<"pivot">>)
                     /\ r["definition"] # Absent => r["target_persona"] = List(<<"founder">>)}
RunOutcomes ==
  {Outcome("exit_nonzero", <<>>, EmptyObj), Outcome("timeout", <<>>, EmptyObj),
   Outcome("stdout", <<"t">>, EmptyObj)}
  \cup {Outcome("stdout", <<"{", "}">>, r) : r \in RunResponses}

\* ------------------------------------------------- a single _enrich_file
OneInit ==
  one \in {[pc |-> "call", before |-> c, outcome |-> o,
            after |-> Result(FALSE, c, FALSE, FALSE)] : c \in Shapes, o \in Outcomes}

EnrichOne ==
  /\ one.pc = "call"
  /\ one' = [one EXCEPT !.pc = "done", !.after = EnrichFile(one.before, one.outcome)]

\* -------------------------------------------------------------- the splitter
\* explode_json.py. An element of the input array is an object, with or
\* without the key field, or a value that is no object; `name` is the string
\* of the key field's value, `payload` stands for the rest of the object.
SplitIdle == [pc |-> "idle", isList |-> TRUE, data |-> <<>>, idx |-> 0, out |-> {}]

NameChars == {"a", "/"}
Names == SeqUpTo(NameChars, MaxNameLen)
Payloads == {"p", "q"}
Elements ==
  {[isObj |-> TRUE, has |-> TRUE, name |-> n, payload |-> x] : n \in Names, x \in Payloads}
  \cup {[isObj |-> TRUE, has |-> FALSE, name |-> <<>>, payload |-> x] : x \in Payloads}
  \cup {[isObj |-> FALSE, has |-> FALSE, name |-> <<>>, payload |-> "p"]}

\* the character class of the sanitising pattern
UnsafeChars == {"\\", "/", ":", "\"", "*", "?", "<", ">", "|"}

RECURSIVE DropUnsafeRun(_)
DropUnsafeRun(s) ==
  IF s # <<>> /\ Head(s) \in UnsafeChars THEN DropUnsafeRun(Tail(s)) ELSE s

RECURSIVE Sanitize(_)
\* re.sub(r'[\\/:"*?<>|]+', "_", name): every maximal run of unsafe
\* characters becomes one underscore
Sanitize(s) ==
  IF s = <<>> THEN <<>>
  ELSE IF Head(s) \in UnsafeChars THEN <<"_">> \o Sanitize(DropUnsafeRun(Tail(s)))
  ELSE <<Head(s)>> \o Sanitize(Tail(s))

\* faulty variant: the file name does not depend on the object
OutPathFixed(obj) == <<"out", ".json">>

\* os.path.join(output_dir, safe_name + ".json")
OutPath(obj) == Sanitize(obj.name) \o <<".json">>

\* open(out_path, "w") and json.dump: the file at that path now holds obj
WriteOut(out, obj) ==
  {e \in out : e.path # OutPath(obj)} \cup {[path |-> OutPath(obj), obj |-> obj]}

SplitInit ==
  sp \in {[pc |-> "start", isList |-> TRUE, data |-> d, idx |-> 1, out |-> {}] :
            d \in SeqUpTo(Elements, MaxArr)}
         \cup {[pc |-> "start", isList |-> FALSE, data |-> <<>>, idx |-> 1, out |-> {}]}

\* json.load and the isinstance(data, list) test
SplitLoad ==
  /\ sp.pc = "start"
  /\ sp' = [sp EXCEPT !.pc = IF ~sp.isList THEN "exit1"
                             ELSE IF sp.data = <<>> THEN "done" ELSE "loop"]

\* one iteration of `for obj in data`
SplitStep ==
  /\ sp.pc = "loop"
  /\ LET obj == sp.data[sp.idx]
         nextpc == IF sp.idx < Len(sp.data) THEN "loop" ELSE "done"
     IN IF ~obj.isObj
        THEN sp' = [sp EXCEPT !.pc = "crashed"]
        ELSE IF ~obj.has
        THEN sp' = [sp EXCEPT !.idx = @ + 1, !.pc = nextpc]
        ELSE sp' = [sp EXCEPT !.idx = @ + 1, !.pc = nextpc,
                              !.out = WriteOut(sp.out, obj)]

\* ------------------------------------------------------------- the enricher
ZeroCount == [f \in Files |-> 0]

EnricherInit ==
  /\ disk \in [Files -> RunShapes]
  /\ log \in {AbsentLog} \cup {SaveProgress(S) : S \in SUBSET Files}
  /\ processed_files = {}
  /\ json_files = <<>>
  /\ i = 0
  /\ pc = "idle"
  /\ success = FALSE
  /\ successful_count = 0
  /\ failed_count = 0
  /\ runs = 0
  /\ attempts = ZeroCount
  /\ calls = ZeroCount
  /\ written = {}
  /\ startLog = {}
  /\ enriched = {}
  /\ marked = {}
  /\ rewritten = {}

\* main(): the constructor with _load_progress, then enrich_all_files up to
\* the head of its loop. A process that ended or was killed may be started
\* again.
Start ==
  /\ pc \in {"idle", "done", "dead"}
  /\ runs < MaxRuns
  /\ runs' = runs + 1
  /\ processed_files' = LoadProgress(log)
  /\ json_files' \in Listings(UnprocessedFiles(processed_files'))
  /\ i' = 1
  /\ pc' = IF json_files' = <<>> THEN "done" ELSE "loop"
  /\ success' = FALSE
  /\ successful_count' = 0
  /\ failed_count' = 0
  /\ attempts' = ZeroCount
  /\ calls' = ZeroCount
  /\ written' = {}
  /\ startLog' = LoadProgress(log)
  /\ UNCHANGED <<disk, log, enriched, marked, rewritten>>

\* success = self._enrich_file(file_path)
Enrich ==
  /\ pc = "loop"
  /\ \E outcome \in RunOutcomes :
       LET f == json_files[i]
           r == EnrichFile(disk[f], outcome)
       IN /\ disk' = [disk EXCEPT ![f] = r.content]
          /\ success' = r.success
          /\ attempts' = [attempts EXCEPT ![f] = @ + 1]
          /\ calls' = [calls EXCEPT ![f] = IF r.called THEN @ + 1 ELSE @]
          /\ written' = IF r.wrote THEN written \cup {f} ELSE written
          /\ enriched' = IF r.success THEN enriched \cup {f} ELSE enriched
          /\ rewritten' = IF r.success /\ r.wrote THEN rewritten \cup {f} ELSE rewritten
  /\ pc' = "record"
  /\ UNCHANGED <<log, processed_files, json_files, i, successful_count,
                 failed_count, runs, startLog, marked>>

\* the rest of the loop body: count, mark and save, or count the failure
Record ==
  /\ pc = "record"
  /\ LET f == json_files[i]
     IN IF success
        THEN /\ successful_count' = successful_count + 1
             /\ processed_files' = processed_files \cup {f}
             /\ log' = SaveProgress(processed_files')
             /\ marked' = marked \cup {f}
             /\ UNCHANGED failed_count
        ELSE /\ failed_count' = failed_count + 1
             /\ UNCHANGED <<successful_count, processed_files, log, marked>>
  /\ pc' = NextPc(success, i, Len(json_files))
  /\ i' = i + 1
  /\ UNCHANGED <<disk, json_files, success, runs, attempts, calls, written,
                 startLog, enriched, rewritten>>

\* the process is killed between two statements
Kill ==
  /\ pc \in {"loop", "record"}
  /\ pc' = "dead"
  /\ UNCHANGED <<disk, log, processed_files, json_files, i, success,
                 successful_count, failed_count, runs, attempts, calls, written,
                 startLog, enriched, marked, rewritten>>

\* the process is killed inside the rewrite of a record file, after
\* open(file_path, 'w') has truncated it
KillInFileWrite ==
  /\ pc = "loop"
  /\ \E outcome \in RunOutcomes :
       LET f == json_files[i]
           r == EnrichFile(disk[f], outcome)
       IN /\ r.wrote
          /\ disk' = [disk EXCEPT ![f] = Corrupt]
          /\ attempts' = [attempts EXCEPT ![f] = @ + 1]
          /\ calls' = [calls EXCEPT ![f] = @ + 1]
          /\ written' = written \cup {f}
  /\ pc' = "dead"
  /\ UNCHANGED <<log, processed_files, json_files, i, success, successful_count,
                 failed_count, runs, startLog, enriched, marked, rewritten>>

\* the process is killed inside _save_progress, after open(..., 'w') has
\* truncated the log
KillInSave ==
  /\ pc = "record"
  /\ success
  /\ successful_count' = successful_count + 1
  /\ processed_files' = processed_files \cup {json_files[i]}
  /\ marked' = marked \cup {json_files[i]}
  /\ log' = CorruptLog
  /\ pc' = "dead"
  /\ UNCHANGED <<disk, json_files, i, success, failed_count, runs, attempts,
                 calls, written, startLog, enriched, rewritten>>

Init == EnricherInit /\ one = [pc |-> "off"] /\ sp = SplitIdle
Next ==
  \/ (Start /\ UNCHANGED <<one, sp>>)
  \/ (Enrich /\ UNCHANGED <<one, sp>>)
  \/ (Record /\ UNCHANGED <<one, sp>>)
  \/ (Kill /\ UNCHANGED <<one, sp>>)
  \/ (KillInFileWrite /\ UNCHANGED <<one, sp>>)
  \/ (KillInSave /\ UNCHANGED <<one, sp>>)
Spec == Init /\ [][Next]_vars

\* a single call of _enrich_file, over every file shape and tool outcome
EnricherOff ==
  /\ disk = [f \in Files |-> Corrupt]
  /\ log = AbsentLog
  /\ processed_files = {}
  /\ json_files = <<>>
  /\ i = 0
  /\ pc = "off"
  /\ success = FALSE
  /\ successful_count = 0
  /\ failed_count = 0
  /\ runs = 0
  /\ attempts = ZeroCount
  /\ calls = ZeroCount
  /\ written = {}
  /\ startLog = {}
  /\ enriched = {}
  /\ marked = {}
  /\ rewritten = {}
InitOne == OneInit /\ EnricherOff /\ sp = SplitIdle
NextOne == EnrichOne /\ UNCHANGED <<enricherVars, sp>>
SpecOne == InitOne /\ [][NextOne]_vars


\* the splitter alone, over every input array
InitSplit == SplitInit /\ EnricherOff /\ one = [pc |-> "off"]
NextSplit ==
  \/ (SplitLoad /\ UNCHANGED <<enricherVars, one>>)
  \/ (SplitStep /\ UNCHANGED <<enricherVars, one>>)
SpecSplit == InitSplit /\ [][NextSplit]_vars

\* ------------------------------------------------------------------ claims
\* what the claims mean by a response, or a record, that fits the schema:
\* every classification field is a list of members of its enumeration
SchemaValid(obj) ==
  \A f \in TargetFields :
    /\ obj[f].kind = "list"
    /\ \A j \in 1..Len(obj[f].items) : obj[f].items[j] \in valid_values[f]

\* a record that holds all three classification fields, whatever their values
AllThreePresent(obj) ==
  /\ obj["target_persona"] # Absent
  /\ obj["startup_phase"] # Absent
  /\ obj["problem_category"] # Absent

\* the names a log file lists
LogNames(l) == IF l.state = "valid" THEN l.processed_files ELSE {}

\* the single call got as far as a parsed response from the tool
OneGotResponse ==
  /\ one.pc = "done"
  /\ one.before.ok
  /\ ~AllThreePresent(one.before.obj)
  /\ ~CallClaudeCode(one.before.obj, one.outcome).isNone
OneResponse == CallClaudeCode(one.before.obj, one.outcome).resp

\* C1: a parsed response is accepted (validation returns true, and the file
\* is opened for rewriting) exactly when all three fields are present, are
\* lists and hold only members of their enumerations; any other response
\* makes _enrich_file return failure with the file as it was.
C1_ValidationIffSchema ==
  OneGotResponse =>
    /\ (ValidateClaudeResponse(OneResponse) = "true") <=> SchemaValid(OneResponse)
    /\ one.after.wrote <=> SchemaValid(OneResponse)
    /\ ~SchemaValid(OneResponse) =>
         /\ ~one.after.success
         /\ one.after.content = one.before

\* C1 witness: the first two fields are well formed, the third holds a value
\* of another field's enumeration; the call failed and left the file alone
C1_Witness ==
  /\ OneGotResponse
  /\ one.before = File(Plain)
  /\ OneResponse["target_persona"] = List(<<"founder">>)
  /\ OneResponse["startup_phase"] = List(<<"seed">>)
  /\ OneResponse["problem_category"] = List(<<"founder">>)
  /\ ~one.after.success
  /\ one.after.content = File(Plain)

\* C2: whenever _enrich_file returns failure, the record file holds what it
\* held before the call.
C2_FailureLeavesFileUnchanged ==
  (one.pc = "done" /\ ~one.after.success) => one.after.content = one.before

\* C10: a successful enrichment changes the three classification fields and
\* nothing else: every other field is afterwards what it was before.
C10_OnlyTargetFieldsChange ==
  (one.pc = "done" /\ one.after.success /\ one.after.wrote) =>
    \A k \in Keys \ TargetFields : one.after.content.obj[k] = one.before.obj[k]

\* C3: a record that already holds all three fields is not sent to the tool,
\* its file is not touched, _enrich_file returns success, and the loop adds
\* its name to the processed set.
C3_CompleteRecordSkipped ==
  [][/\ (pc = "loop" /\ disk[json_files[i]].ok
           /\ AllThreePresent(disk[json_files[i]].obj)) =>
          /\ calls' = calls
          /\ written' = written
          /\ disk' = disk
          /\ pc' = "record" => success'
     /\ (pc = "record" /\ pc' \in {"loop", "done"} /\ disk[json_files[i]].ok
           /\ AllThreePresent(disk[json_files[i]].obj)
           /\ calls[json_files[i]] = 0) =>
          /\ json_files[i] \in processed_files'
          /\ json_files[i] \in LogNames(log')
          /\ disk' = disk]_vars

\* C3 witness: a complete record with unvalidated values has gone through the
\* loop: marked processed, never sent to the tool, file as found
C3_Witness ==
  \E f \in Files :
    /\ disk[f] = File(CompleteUnchecked)
    /\ attempts[f] = 1
    /\ calls[f] = 0
    /\ f \notin written
    /\ f \in processed_files
    /\ f \notin startLog

\* C4: in a run, a file whose name the progress log listed when the run
\* began is not listed as pending, not loaded, not sent to the tool and not
\* rewritten.
C4_LoggedNeverReprocessed ==
  /\ \A f \in startLog : attempts[f] = 0 /\ calls[f] = 0 /\ f \notin written
  /\ \A k \in 1..Len(json_files) : json_files[k] \notin startLog

\* C4 witness: a finished run left alone a logged file that lacks the fields,
\* and attempted another one
C4_Witness ==
  /\ pc = "done"
  /\ \E f \in startLog : ~AllThreePresent(disk[f].obj) /\ attempts[f] = 0
  /\ \E g \in Files \ startLog : attempts[g] = 1

C6_ProcessedRecordsValid ==
  \A f \in marked : disk[f].ok /\ SchemaValid(disk[f].obj)

\* C6 as amended: every record marked processed holds the three fields; the
\* values are lists of enumeration members for the records the enricher
\* rewrote from a validated response.
C6_ProcessedRecordsComplete ==
  \A f \in marked :
    /\ disk[f].ok
    /\ AllThreePresent(disk[f].obj)
    /\ f \in rewritten => SchemaValid(disk[f].obj)

\* C6 witness: one marked record was rewritten, another was accepted as found
\* with values outside the schema
C6_Witness ==
  /\ \E f \in marked : f \in rewritten /\ SchemaValid(disk[f].obj)
  /\ \E g \in marked : g \notin rewritten /\ ~SchemaValid(disk[g].obj)

\* C8: in a run every pending file is attempted once whatever happened to
\* the files before it, the tool is started at most once per file, and at
\* the end successes plus failures is the number of pending files.
C8_EveryPendingFileOnce ==
  /\ \A f \in Files : attempts[f] <= 1 /\ calls[f] <= attempts[f]
  /\ pc = "loop" => successful_count + failed_count = i - 1
  /\ pc = "done" =>
       /\ successful_count + failed_count = Len(json_files)
       /\ Len(json_files) = Cardinality(Files \ startLog)
       /\ \A f \in Files \ startLog : attempts[f] = 1

\* C8 witness: the first file of a run failed, the last one succeeded
C8_Witness ==
  /\ runs = 1
  /\ pc = "done"
  /\ Len(json_files) >= 2
  /\ json_files[1] \notin enriched
  /\ json_files[Len(json_files)] \in enriched
  /\ failed_count >= 1
  /\ successful_count >= 1

CountIn(x) == Cardinality({k \in 1..Len(sp.data) : sp.data[k] = x})
CountOut(x) == Cardinality({e \in sp.out : e.obj = x})
SplitEnded == sp.pc \in {"done", "crashed"}

DistinctNamedObjects ==
  /\ \A k \in 1..Len(sp.data) : sp.data[k].isObj /\ sp.data[k].has
  /\ \A k, m \in 1..Len(sp.data) :
       k # m => Sanitize(sp.data[k].name) # Sanitize(sp.data[m].name)

=============================================================================
